---- MODULE Spec2Model ----
(***************************************************************************)
(* arXiv math.AG weekly pick-up (src/main.py): one run of main() as a      *)
(* state machine, and the pure functions in_lookback and                   *)
(* extract_main_theorem_from_text applied to bounded inputs.               *)
(*                                                                         *)
(* Text is a sequence of characters, each its Unicode code point.          *)
(* Wall-clock instants are whole hours; the polite delay is in seconds.    *)
(***************************************************************************)
EXTENDS Integers, Sequences, FiniteSets, TLC

VARIABLES
    pc,            \* position in main(), or "call"/"return" of a pure function
    err,           \* the exception that ended the run ("" while none)
    now,           \* dt.datetime.now(dt.timezone.utc), in hours
    cfgFile,       \* config.yaml exists
    cfg,           \* the parsed configuration and the keys it holds
    entries,       \* main: entries (after the lookback filter)
    items,         \* main: items
    top,           \* main: top
    others,        \* main: others
    detailed,      \* main: detailed
    other_titles,  \* main: other_titles
    theorem,       \* main: theorem, the value the last extraction returned
    tmp,           \* tmp.pdf exists on disk
    clock,         \* seconds since the run started
    last,          \* what the last extraction attempt did (observer)
    net,           \* network requests issued so far: [feed, pdf]
    doc,           \* the document build_pdf wrote
    summary,       \* the JSON summary printed
    lbEntry,       \* in_lookback: e
    lbDays,        \* in_lookback: days
    lbOut,         \* in_lookback: what the call did
    text,          \* extract_main_theorem_from_text: text
    mstart,        \* extract_main_theorem_from_text: m.start() (0: no match)
    out,           \* extract_main_theorem_from_text: out, before line 125
    excerpt        \* extract_main_theorem_from_text: the value returned

vars == <<pc, err, now, cfgFile, cfg, entries, items, top, others, detailed,
          other_titles, theorem, tmp, clock, last, net, doc, summary,
          lbEntry, lbDays, lbOut, text, mstart, out, excerpt>>

mainVars == <<cfgFile, cfg, entries, items, top, others, detailed,
              other_titles, theorem, tmp, clock, last, net, doc, summary>>
lbVars   == <<lbEntry, lbDays, lbOut>>
txVars   == <<text, mstart, out, excerpt>>

-----------------------------------------------------------------------------
(* Bounds of the model *)

MaxDays    == 2    \* lookback_days ranges over 0..MaxDays

-----------------------------------------------------------------------------
(* Helpers on numbers and sequences *)

Min(a, b) == IF a < b THEN a ELSE b
Max(a, b) == IF a > b THEN a ELSE b

Range(s) == {s[i] : i \in 1..Len(s)}

-----------------------------------------------------------------------------
(* in_lookback, src/main.py 75-85                                          *)
(*                                                                         *)
(* A timestamp field of an entry is [form, wall]: form is how the string   *)
(* is written ("Z": ...T12:00:00Z, "+09:00": an explicit offset, "naive":  *)
(* ISO-8601 without an offset, "malformed": not ISO-8601), or "None" (the  *)
(* key holds None) or "absent" (no such key); wall is the wall-clock hour  *)
(* the string spells.                                                      *)

HoursPerDay == 24

StampForms == {"Z", "+09:00", "naive", "malformed", "None", "absent"}

OffsetHours(form) == IF form = "+09:00" THEN 9 ELSE 0

\* A datetime: ok = FALSE is Python's None.
NoDatetime == [ok |-> FALSE, aware |-> FALSE, t |-> 0]

\* parse_iso: fromisoformat(s.replace("Z", "+00:00")); any exception -> None.
\* An aware datetime is kept as its UTC instant, a naive one as its wall time.
parse_iso(s) ==
    IF s.form \in {"malformed", "None", "absent"} THEN NoDatetime
    ELSE IF s.form = "naive" THEN [ok |-> TRUE, aware |-> FALSE, t |-> s.wall]
    ELSE [ok |-> TRUE, aware |-> TRUE, t |-> s.wall - OffsetHours(s.form)]

IsParsed(d) == d.ok

\* timedelta.days: the floor of the difference in days.
TimedeltaDays(hours) == hours \div HoursPerDay

\* in_lookback(e, days) at the instant nowUtc. raised = TRUE: a TypeError left
\* the function (max() comparing, or now - cand subtracting, an offset-naive
\* and an offset-aware datetime).
in_lookback(e, days, nowUtc) ==
    LET ds == SelectSeq(<<parse_iso(e.updated), parse_iso(e.published)>>, IsParsed)
    IN  IF ds = <<>> THEN [raised |-> FALSE, value |-> TRUE]
        ELSE IF Len(ds) = 2 /\ ds[1].aware # ds[2].aware
             THEN [raised |-> TRUE, value |-> FALSE]
        ELSE LET cand == IF Len(ds) = 2 /\ ds[2].t > ds[1].t THEN ds[2] ELSE ds[1]
             IN  IF ~cand.aware THEN [raised |-> TRUE, value |-> FALSE]
                 ELSE [raised |-> FALSE,
                       value  |-> TimedeltaDays(nowUtc - cand.t) <= days]

\* Inputs of the lookback check: ages around every day boundary, in every form.
LbAges == {d * HoursPerDay + h : d \in (-1)..(MaxDays + 1), h \in {0, HoursPerDay - 1}}

StampAt(form, utc) ==
    IF form \in {"malformed", "None", "absent"} THEN [form |-> form, wall |-> 0]
    ELSE [form |-> form, wall |-> utc + OffsetHours(form)]

LbStamps == {StampAt(f, 0 - a) : f \in StampForms, a \in LbAges}

-----------------------------------------------------------------------------
(* extract_main_theorem_from_text, src/main.py 116-126, and the patterns   *)
(* _DEF_THEOREM_PATTERNS, 26-34, searched with re.IGNORECASE | re.MULTILINE *)

MaxChars   == 700     \* max_chars, the default of line 116
ChunkChars == 2000    \* the chunk taken from the match start, line 121
MaxSentences == 3     \* sentences[:3], line 123
NumPatterns == 7      \* len(_DEF_THEOREM_PATTERNS)

\* A character is its Unicode code point.
Ellipsis == 8230    \* U+2026, the marker of line 125
Blank    == 32
Newline  == 10
FormFeed == 12      \* what pdfminer's extract_text ends a page with
Colon    == 58

\* c lies in one of the ranges <<first, last>> of R.
InRanges(c, R) == \E r \in R : r[1] <= c /\ c <= r[2]

\* \s of a str pattern, also what str.strip() strips: the white space of
\* Unicode and the separators U+001C..U+001F.
SpaceChars ==
    {9, 10, 11, 12, 13, 28, 29, 30, 31, 32, 133, 160, 5760, 8192, 8193, 8194,
     8195, 8196, 8197, 8198, 8199, 8200, 8201, 8202, 8232, 8233, 8239, 8287,
     12288}

IsSpace(c) == c \in SpaceChars

\* \d of a str pattern: the decimal digits of Unicode (category Nd).
DigitRanges ==
    {<<48, 57>>, <<1632, 1641>>, <<1776, 1785>>, <<1984, 1993>>, <<2406,
     2415>>, <<2534, 2543>>, <<2662, 2671>>, <<2790, 2799>>, <<2918, 2927>>,
     <<3046, 3055>>, <<3174, 3183>>, <<3302, 3311>>, <<3430, 3439>>, <<3558,
     3567>>, <<3664, 3673>>, <<3792, 3801>>, <<3872, 3881>>, <<4160, 4169>>,
     <<4240, 4249>>, <<6112, 6121>>, <<6160, 6169>>, <<6470, 6479>>, <<6608,
     6617>>, <<6784, 6793>>, <<6800, 6809>>, <<6992, 7001>>, <<7088, 7097>>,
     <<7232, 7241>>, <<7248, 7257>>, <<42528, 42537>>, <<43216, 43225>>,
     <<43264, 43273>>, <<43472, 43481>>, <<43504, 43513>>, <<43600, 43609>>,
     <<44016, 44025>>, <<65296, 65305>>, <<66720, 66729>>, <<68912, 68921>>,
     <<69734, 69743>>, <<69872, 69881>>, <<69942, 69951>>, <<70096, 70105>>,
     <<70384, 70393>>, <<70736, 70745>>, <<70864, 70873>>, <<71248, 71257>>,
     <<71360, 71369>>, <<71472, 71481>>, <<71904, 71913>>, <<72016, 72025>>,
     <<72784, 72793>>, <<73040, 73049>>, <<73120, 73129>>, <<92768, 92777>>,
     <<92864, 92873>>, <<93008, 93017>>, <<120782, 120831>>, <<123200,
     123209>>, <<123632, 123641>>, <<125264, 125273>>, <<130032, 130041>>}

IsDigit(c) == InRanges(c, DigitRanges)

\* \w of a str pattern: the alphanumeric characters of Unicode and "_".
WordRanges ==
    {<<48, 57>>, <<65, 90>>, <<95, 95>>, <<97, 122>>, <<170, 170>>, <<178,
     179>>, <<181, 181>>, <<185, 186>>, <<188, 190>>, <<192, 214>>, <<216,
     246>>, <<248, 705>>, <<710, 721>>, <<736, 740>>, <<748, 748>>, <<750,
     750>>, <<880, 884>>, <<886, 887>>, <<890, 893>>, <<895, 895>>, <<902,
     902>>, <<904, 906>>, <<908, 908>>, <<910, 929>>, <<931, 1013>>, <<1015,
     1153>>, <<1162, 1327>>, <<1329, 1366>>, <<1369, 1369>>, <<1376, 1416>>,
     <<1488, 1514>>, <<1519, 1522>>, <<1568, 1610>>, <<1632, 1641>>, <<1646,
     1647>>, <<1649, 1747>>, <<1749, 1749>>, <<1765, 1766>>, <<1774, 1788>>,
     <<1791, 1791>>, <<1808, 1808>>, <<1810, 1839>>, <<1869, 1957>>, <<1969,
     1969>>, <<1984, 2026>>, <<2036, 2037>>, <<2042, 2042>>, <<2048, 2069>>,
     <<2074, 2074>>, <<2084, 2084>>, <<2088, 2088>>, <<2112, 2136>>, <<2144,
     2154>>, <<2160, 2183>>, <<2185, 2190>>, <<2208, 2249>>, <<2308, 2361>>,
     <<2365, 2365>>, <<2384, 2384>>, <<2392, 2401>>, <<2406, 2415>>, <<2417,
     2432>>, <<2437, 2444>>, <<2447, 2448>>, <<2451, 2472>>, <<2474, 2480>>,
     <<2482, 2482>>, <<2486, 2489>>, <<2493, 2493>>, <<2510, 2510>>, <<2524,
     2525>>, <<2527, 2529>>, <<2534, 2545>>, <<2548, 2553>>, <<2556, 2556>>,
     <<2565, 2570>>, <<2575, 2576>>, <<2579, 2600>>, <<2602, 2608>>, <<2610,
     2611>>, <<2613, 2614>>, <<2616, 2617>>, <<2649, 2652>>, <<2654, 2654>>,
     <<2662, 2671>>, <<2674, 2676>>, <<2693, 2701>>, <<2703, 2705>>, <<2707,
     2728>>, <<2730, 2736>>, <<2738, 2739>>, <<2741, 2745>>, <<2749, 2749>>,
     <<2768, 2768>>, <<2784, 2785>>, <<2790, 2799>>, <<2809, 2809>>, <<2821,
     2828>>, <<2831, 2832>>, <<2835, 2856>>, <<2858, 2864>>, <<2866, 2867>>,
     <<2869, 2873>>, <<2877, 2877>>, <<2908, 2909>>, <<2911, 2913>>, <<2918,
     2927>>, <<2929, 2935>>, <<2947, 2947>>, <<2949, 2954>>, <<2958, 2960>>,
     <<2962, 2965>>, <<2969, 2970>>, <<2972, 2972>>, <<2974, 2975>>, <<2979,
     2980>>, <<2984, 2986>>, <<2990, 3001>>, <<3024, 3024>>, <<3046, 3058>>,
     <<3077, 3084>>, <<3086, 3088>>, <<3090, 3112>>, <<3114, 3129>>, <<3133,
     3133>>, <<3160, 3162>>, <<3165, 3165>>, <<3168, 3169>>, <<3174, 3183>>,
     <<3192, 3198>>, <<3200, 3200>>, <<3205, 3212>>, <<3214, 3216>>, <<3218,
     3240>>, <<3242, 3251>>, <<3253, 3257>>, <<3261, 3261>>, <<3293, 3294>>,
     <<3296, 3297>>, <<3302, 3311>>, <<3313, 3314>>, <<3332, 3340>>, <<3342,
     3344>>, <<3346, 3386>>, <<3389, 3389>>, <<3406, 3406>>, <<3412, 3414>>,
     <<3416, 3425>>, <<3430, 3448>>, <<3450, 3455>>, <<3461, 3478>>, <<3482,
     3505>>, <<3507, 3515>>, <<3517, 3517>>, <<3520, 3526>>, <<3558, 3567>>,
     <<3585, 3632>>, <<3634, 3635>>, <<3648, 3654>>, <<3664, 3673>>, <<3713,
     3714>>, <<3716, 3716>>, <<3718, 3722>>, <<3724, 3747>>, <<3749, 3749>>,
     <<3751, 3760>>, <<3762, 3763>>, <<3773, 3773>>, <<3776, 3780>>, <<3782,
     3782>>, <<3792, 3801>>, <<3804, 3807>>, <<3840, 3840>>, <<3872, 3891>>,
     <<3904, 3911>>, <<3913, 3948>>, <<3976, 3980>>, <<4096, 4138>>, <<4159,
     4169>>, <<4176, 4181>>, <<4186, 4189>>, <<4193, 4193>>, <<4197, 4198>>,
     <<4206, 4208>>, <<4213, 4225>>, <<4238, 4238>>, <<4240, 4249>>, <<4256,
     4293>>, <<4295, 4295>>, <<4301, 4301>>, <<4304, 4346>>, <<4348, 4680>>,
     <<4682, 4685>>, <<4688, 4694>>, <<4696, 4696>>, <<4698, 4701>>, <<4704,
     4744>>, <<4746, 4749>>, <<4752, 4784>>, <<4786, 4789>>, <<4792, 4798>>,
     <<4800, 4800>>, <<4802, 4805>>, <<4808, 4822>>, <<4824, 4880>>, <<4882,
     4885>>, <<4888, 4954>>, <<4969, 4988>>, <<4992, 5007>>, <<5024, 5109>>,
     <<5112, 5117>>, <<5121, 5740>>, <<5743, 5759>>, <<5761, 5786>>, <<5792,
     5866>>, <<5870, 5880>>, <<5888, 5905>>, <<5919, 5937>>, <<5952, 5969>>,
     <<5984, 5996>>, <<5998, 6000>>, <<6016, 6067>>, <<6103, 6103>>, <<6108,
     6108>>, <<6112, 6121>>, <<6128, 6137>>, <<6160, 6169>>, <<6176, 6264>>,
     <<6272, 6276>>, <<6279, 6312>>, <<6314, 6314>>, <<6320, 6389>>, <<6400,
     6430>>, <<6470, 6509>>, <<6512, 6516>>, <<6528, 6571>>, <<6576, 6601>>,
     <<6608, 6618>>, <<6656, 6678>>, <<6688, 6740>>, <<6784, 6793>>, <<6800,
     6809>>, <<6823, 6823>>, <<6917, 6963>>, <<6981, 6988>>, <<6992, 7001>>,
     <<7043, 7072>>, <<7086, 7141>>, <<7168, 7203>>, <<7232, 7241>>, <<7245,
     7293>>, <<7296, 7304>>, <<7312, 7354>>, <<7357, 7359>>, <<7401, 7404>>,
     <<7406, 7411>>, <<7413, 7414>>, <<7418, 7418>>, <<7424, 7615>>, <<7680,
     7957>>, <<7960, 7965>>, <<7968, 8005>>, <<8008, 8013>>, <<8016, 8023>>,
     <<8025, 8025>>, <<8027, 8027>>, <<8029, 8029>>, <<8031, 8061>>, <<8064,
     8116>>, <<8118, 8124>>, <<8126, 8126>>, <<8130, 8132>>, <<8134, 8140>>,
     <<8144, 8147>>, <<8150, 8155>>, <<8160, 8172>>, <<8178, 8180>>, <<8182,
     8188>>, <<8304, 8305>>, <<8308, 8313>>, <<8319, 8329>>, <<8336, 8348>>,
     <<8450, 8450>>, <<8455, 8455>>, <<8458, 8467>>, <<8469, 8469>>, <<8473,
     8477>>, <<8484, 8484>>, <<8486, 8486>>, <<8488, 8488>>, <<8490, 8493>>,
     <<8495, 8505>>, <<8508, 8511>>, <<8517, 8521>>, <<8526, 8526>>, <<8528,
     8585>>, <<9312, 9371>>, <<9450, 9471>>, <<10102, 10131>>, <<11264,
     11492>>, <<11499, 11502>>, <<11506, 11507>>, <<11517, 11517>>, <<11520,
     11557>>, <<11559, 11559>>, <<11565, 11565>>, <<11568, 11623>>, <<11631,
     11631>>, <<11648, 11670>>, <<11680, 11686>>, <<11688, 11694>>, <<11696,
     11702>>, <<11704, 11710>>, <<11712, 11718>>, <<11720, 11726>>, <<11728,
     11734>>, <<11736, 11742>>, <<11823, 11823>>, <<12293, 12295>>, <<12321,
     12329>>, <<12337, 12341>>, <<12344, 12348>>, <<12353, 12438>>, <<12445,
     12447>>, <<12449, 12538>>, <<12540, 12543>>, <<12549, 12591>>, <<12593,
     12686>>, <<12690, 12693>>, <<12704, 12735>>, <<12784, 12799>>, <<12832,
     12841>>, <<12872, 12879>>, <<12881, 12895>>, <<12928, 12937>>, <<12977,
     12991>>, <<13312, 19903>>, <<19968, 42124>>, <<42192, 42237>>, <<42240,
     42508>>, <<42512, 42539>>, <<42560, 42606>>, <<42623, 42653>>, <<42656,
     42735>>, <<42775, 42783>>, <<42786, 42888>>, <<42891, 42954>>, <<42960,
     42961>>, <<42963, 42963>>, <<42965, 42969>>, <<42994, 43009>>, <<43011,
     43013>>, <<43015, 43018>>, <<43020, 43042>>, <<43056, 43061>>, <<43072,
     43123>>, <<43138, 43187>>, <<43216, 43225>>, <<43250, 43255>>, <<43259,
     43259>>, <<43261, 43262>>, <<43264, 43301>>, <<43312, 43334>>, <<43360,
     43388>>, <<43396, 43442>>, <<43471, 43481>>, <<43488, 43492>>, <<43494,
     43518>>, <<43520, 43560>>, <<43584, 43586>>, <<43588, 43595>>, <<43600,
     43609>>, <<43616, 43638>>, <<43642, 43642>>, <<43646, 43695>>, <<43697,
     43697>>, <<43701, 43702>>, <<43705, 43709>>, <<43712, 43712>>, <<43714,
     43714>>, <<43739, 43741>>, <<43744, 43754>>, <<43762, 43764>>, <<43777,
     43782>>, <<43785, 43790>>, <<43793, 43798>>, <<43808, 43814>>, <<43816,
     43822>>, <<43824, 43866>>, <<43868, 43881>>, <<43888, 44002>>, <<44016,
     44025>>, <<44032, 55203>>, <<55216, 55238>>, <<55243, 55291>>, <<63744,
     64109>>, <<64112, 64217>>, <<64256, 64262>>, <<64275, 64279>>, <<64285,
     64285>>, <<64287, 64296>>, <<64298, 64310>>, <<64312, 64316>>, <<64318,
     64318>>, <<64320, 64321>>, <<64323, 64324>>, <<64326, 64433>>, <<64467,
     64829>>, <<64848, 64911>>, <<64914, 64967>>, <<65008, 65019>>, <<65136,
     65140>>, <<65142, 65276>>, <<65296, 65305>>, <<65313, 65338>>, <<65345,
     65370>>, <<65382, 65470>>, <<65474, 65479>>, <<65482, 65487>>, <<65490,
     65495>>, <<65498, 65500>>, <<65536, 65547>>, <<65549, 65574>>, <<65576,
     65594>>, <<65596, 65597>>, <<65599, 65613>>, <<65616, 65629>>, <<65664,
     65786>>, <<65799, 65843>>, <<65856, 65912>>, <<65930, 65931>>, <<66176,
     66204>>, <<66208, 66256>>, <<66273, 66299>>, <<66304, 66339>>, <<66349,
     66378>>, <<66384, 66421>>, <<66432, 66461>>, <<66464, 66499>>, <<66504,
     66511>>, <<66513, 66517>>, <<66560, 66717>>, <<66720, 66729>>, <<66736,
     66771>>, <<66776, 66811>>, <<66816, 66855>>, <<66864, 66915>>, <<66928,
     66938>>, <<66940, 66954>>, <<66956, 66962>>, <<66964, 66965>>, <<66967,
     66977>>, <<66979, 66993>>, <<66995, 67001>>, <<67003, 67004>>, <<67072,
     67382>>, <<67392, 67413>>, <<67424, 67431>>, <<67456, 67461>>, <<67463,
     67504>>, <<67506, 67514>>, <<67584, 67589>>, <<67592, 67592>>, <<67594,
     67637>>, <<67639, 67640>>, <<67644, 67644>>, <<67647, 67669>>, <<67672,
     67702>>, <<67705, 67742>>, <<67751, 67759>>, <<67808, 67826>>, <<67828,
     67829>>, <<67835, 67867>>, <<67872, 67897>>, <<67968, 68023>>, <<68028,
     68047>>, <<68050, 68096>>, <<68112, 68115>>, <<68117, 68119>>, <<68121,
     68149>>, <<68160, 68168>>, <<68192, 68222>>, <<68224, 68255>>, <<68288,
     68295>>, <<68297, 68324>>, <<68331, 68335>>, <<68352, 68405>>, <<68416,
     68437>>, <<68440, 68466>>, <<68472, 68497>>, <<68521, 68527>>, <<68608,
     68680>>, <<68736, 68786>>, <<68800, 68850>>, <<68858, 68899>>, <<68912,
     68921>>, <<69216, 69246>>, <<69248, 69289>>, <<69296, 69297>>, <<69376,
     69415>>, <<69424, 69445>>, <<69457, 69460>>, <<69488, 69505>>, <<69552,
     69579>>, <<69600, 69622>>, <<69635, 69687>>, <<69714, 69743>>, <<69745,
     69746>>, <<69749, 69749>>, <<69763, 69807>>, <<69840, 69864>>, <<69872,
     69881>>, <<69891, 69926>>, <<69942, 69951>>, <<69956, 69956>>, <<69959,
     69959>>, <<69968, 70002>>, <<70006, 70006>>, <<70019, 70066>>, <<70081,
     70084>>, <<70096, 70106>>, <<70108, 70108>>, <<70113, 70132>>, <<70144,
     70161>>, <<70163, 70187>>, <<70272, 70278>>, <<70280, 70280>>, <<70282,
     70285>>, <<70287, 70301>>, <<70303, 70312>>, <<70320, 70366>>, <<70384,
     70393>>, <<70405, 70412>>, <<70415, 70416>>, <<70419, 70440>>, <<70442,
     70448>>, <<70450, 70451>>, <<70453, 70457>>, <<70461, 70461>>, <<70480,
     70480>>, <<70493, 70497>>, <<70656, 70708>>, <<70727, 70730>>, <<70736,
     70745>>, <<70751, 70753>>, <<70784, 70831>>, <<70852, 70853>>, <<70855,
     70855>>, <<70864, 70873>>, <<71040, 71086>>, <<71128, 71131>>, <<71168,
     71215>>, <<71236, 71236>>, <<71248, 71257>>, <<71296, 71338>>, <<71352,
     71352>>, <<71360, 71369>>, <<71424, 71450>>, <<71472, 71483>>, <<71488,
     71494>>, <<71680, 71723>>, <<71840, 71922>>, <<71935, 71942>>, <<71945,
     71945>>, <<71948, 71955>>, <<71957, 71958>>, <<71960, 71983>>, <<71999,
     71999>>, <<72001, 72001>>, <<72016, 72025>>, <<72096, 72103>>, <<72106,
     72144>>, <<72161, 72161>>, <<72163, 72163>>, <<72192, 72192>>, <<72203,
     72242>>, <<72250, 72250>>, <<72272, 72272>>, <<72284, 72329>>, <<72349,
     72349>>, <<72368, 72440>>, <<72704, 72712>>, <<72714, 72750>>, <<72768,
     72768>>, <<72784, 72812>>, <<72818, 72847>>, <<72960, 72966>>, <<72968,
     72969>>, <<72971, 73008>>, <<73030, 73030>>, <<73040, 73049>>, <<73056,
     73061>>, <<73063, 73064>>, <<73066, 73097>>, <<73112, 73112>>, <<73120,
     73129>>, <<73440, 73458>>, <<73648, 73648>>, <<73664, 73684>>, <<73728,
     74649>>, <<74752, 74862>>, <<74880, 75075>>, <<77712, 77808>>, <<77824,
     78894>>, <<82944, 83526>>, <<92160, 92728>>, <<92736, 92766>>, <<92768,
     92777>>, <<92784, 92862>>, <<92864, 92873>>, <<92880, 92909>>, <<92928,
     92975>>, <<92992, 92995>>, <<93008, 93017>>, <<93019, 93025>>, <<93027,
     93047>>, <<93053, 93071>>, <<93760, 93846>>, <<93952, 94026>>, <<94032,
     94032>>, <<94099, 94111>>, <<94176, 94177>>, <<94179, 94179>>, <<94208,
     100343>>, <<100352, 101589>>, <<101632, 101640>>, <<110576, 110579>>,
     <<110581, 110587>>, <<110589, 110590>>, <<110592, 110882>>, <<110928,
     110930>>, <<110948, 110951>>, <<110960, 111355>>, <<113664, 113770>>,
     <<113776, 113788>>, <<113792, 113800>>, <<113808, 113817>>, <<119520,
     119539>>, <<119648, 119672>>, <<119808, 119892>>, <<119894, 119964>>,
     <<119966, 119967>>, <<119970, 119970>>, <<119973, 119974>>, <<119977,
     119980>>, <<119982, 119993>>, <<119995, 119995>>, <<119997, 120003>>,
     <<120005, 120069>>, <<120071, 120074>>, <<120077, 120084>>, <<120086,
     120092>>, <<120094, 120121>>, <<120123, 120126>>, <<120128, 120132>>,
     <<120134, 120134>>, <<120138, 120144>>, <<120146, 120485>>, <<120488,
     120512>>, <<120514, 120538>>, <<120540, 120570>>, <<120572, 120596>>,
     <<120598, 120628>>, <<120630, 120654>>, <<120656, 120686>>, <<120688,
     120712>>, <<120714, 120744>>, <<120746, 120770>>, <<120772, 120779>>,
     <<120782, 120831>>, <<122624, 122654>>, <<123136, 123180>>, <<123191,
     123197>>, <<123200, 123209>>, <<123214, 123214>>, <<123536, 123565>>,
     <<123584, 123627>>, <<123632, 123641>>, <<124896, 124902>>, <<124904,
     124907>>, <<124909, 124910>>, <<124912, 124926>>, <<124928, 125124>>,
     <<125127, 125135>>, <<125184, 125251>>, <<125259, 125259>>, <<125264,
     125273>>, <<126065, 126123>>, <<126125, 126127>>, <<126129, 126132>>,
     <<126209, 126253>>, <<126255, 126269>>, <<126464, 126467>>, <<126469,
     126495>>, <<126497, 126498>>, <<126500, 126500>>, <<126503, 126503>>,
     <<126505, 126514>>, <<126516, 126519>>, <<126521, 126521>>, <<126523,
     126523>>, <<126530, 126530>>, <<126535, 126535>>, <<126537, 126537>>,
     <<126539, 126539>>, <<126541, 126543>>, <<126545, 126546>>, <<126548,
     126548>>, <<126551, 126551>>, <<126553, 126553>>, <<126555, 126555>>,
     <<126557, 126557>>, <<126559, 126559>>, <<126561, 126562>>, <<126564,
     126564>>, <<126567, 126570>>, <<126572, 126578>>, <<126580, 126583>>,
     <<126585, 126588>>, <<126590, 126590>>, <<126592, 126601>>, <<126603,
     126619>>, <<126625, 126627>>, <<126629, 126633>>, <<126635, 126651>>,
     <<127232, 127244>>, <<130032, 130041>>, <<131072, 173791>>, <<173824,
     177976>>, <<177984, 178205>>, <<178208, 183969>>, <<183984, 191456>>,
     <<194560, 195101>>, <<196608, 201546>>}

IsWordChar(c) == InRanges(c, WordRanges)

\* Case folding of re.IGNORECASE on a str pattern. The lower case of a
\* character: <<first, last, delta, step>> says that first, first + step, ...
\* up to last have their lower case delta further on.
ToLowerRuns ==
    {<<65, 90, 32, 1>>, <<192, 214, 32, 1>>, <<216, 222, 32, 1>>, <<256, 302,
     1, 2>>, <<304, 304, -199, 1>>, <<306, 310, 1, 2>>, <<313, 327, 1, 2>>,
     <<330, 374, 1, 2>>, <<376, 376, -121, 1>>, <<377, 381, 1, 2>>, <<385,
     385, 210, 1>>, <<386, 388, 1, 2>>, <<390, 390, 206, 1>>, <<391, 391, 1,
     1>>, <<393, 394, 205, 1>>, <<395, 395, 1, 1>>, <<398, 398, 79, 1>>,
     <<399, 399, 202, 1>>, <<400, 400, 203, 1>>, <<401, 401, 1, 1>>, <<403,
     403, 205, 1>>, <<404, 404, 207, 1>>, <<406, 406, 211, 1>>, <<407, 407,
     209, 1>>, <<408, 408, 1, 1>>, <<412, 412, 211, 1>>, <<413, 413, 213, 1>>,
     <<415, 415, 214, 1>>, <<416, 420, 1, 2>>, <<422, 422, 218, 1>>, <<423,
     423, 1, 1>>, <<425, 425, 218, 1>>, <<428, 428, 1, 1>>, <<430, 430, 218,
     1>>, <<431, 431, 1, 1>>, <<433, 434, 217, 1>>, <<435, 437, 1, 2>>, <<439,
     439, 219, 1>>, <<440, 440, 1, 1>>, <<444, 444, 1, 1>>, <<452, 452, 2,
     1>>, <<453, 453, 1, 1>>, <<455, 455, 2, 1>>, <<456, 456, 1, 1>>, <<458,
     458, 2, 1>>, <<459, 475, 1, 2>>, <<478, 494, 1, 2>>, <<497, 497, 2, 1>>,
     <<498, 500, 1, 2>>, <<502, 502, -97, 1>>, <<503, 503, -56, 1>>, <<504,
     542, 1, 2>>, <<544, 544, -130, 1>>, <<546, 562, 1, 2>>, <<570, 570,
     10795, 1>>, <<571, 571, 1, 1>>, <<573, 573, -163, 1>>, <<574, 574, 10792,
     1>>, <<577, 577, 1, 1>>, <<579, 579, -195, 1>>, <<580, 580, 69, 1>>,
     <<581, 581, 71, 1>>, <<582, 590, 1, 2>>, <<880, 882, 1, 2>>, <<886, 886,
     1, 1>>, <<895, 895, 116, 1>>, <<902, 902, 38, 1>>, <<904, 906, 37, 1>>,
     <<908, 908, 64, 1>>, <<910, 911, 63, 1>>, <<913, 929, 32, 1>>, <<931,
     939, 32, 1>>, <<975, 975, 8, 1>>, <<984, 1006, 1, 2>>, <<1012, 1012, -60,
     1>>, <<1015, 1015, 1, 1>>, <<1017, 1017, -7, 1>>, <<1018, 1018, 1, 1>>,
     <<1021, 1023, -130, 1>>, <<1024, 1039, 80, 1>>, <<1040, 1071, 32, 1>>,
     <<1120, 1152, 1, 2>>, <<1162, 1214, 1, 2>>, <<1216, 1216, 15, 1>>,
     <<1217, 1229, 1, 2>>, <<1232, 1326, 1, 2>>, <<1329, 1366, 48, 1>>,
     <<4256, 4293, 7264, 1>>, <<4295, 4295, 7264, 1>>, <<4301, 4301, 7264,
     1>>, <<5024, 5103, 38864, 1>>, <<5104, 5109, 8, 1>>, <<7312, 7354, -3008,
     1>>, <<7357, 7359, -3008, 1>>, <<7680, 7828, 1, 2>>, <<7838, 7838, -7615,
     1>>, <<7840, 7934, 1, 2>>, <<7944, 7951, -8, 1>>, <<7960, 7965, -8, 1>>,
     <<7976, 7983, -8, 1>>, <<7992, 7999, -8, 1>>, <<8008, 8013, -8, 1>>,
     <<8025, 8031, -8, 2>>, <<8040, 8047, -8, 1>>, <<8072, 8079, -8, 1>>,
     <<8088, 8095, -8, 1>>, <<8104, 8111, -8, 1>>, <<8120, 8121, -8, 1>>,
     <<8122, 8123, -74, 1>>, <<8124, 8124, -9, 1>>, <<8136, 8139, -86, 1>>,
     <<8140, 8140, -9, 1>>, <<8152, 8153, -8, 1>>, <<8154, 8155, -100, 1>>,
     <<8168, 8169, -8, 1>>, <<8170, 8171, -112, 1>>, <<8172, 8172, -7, 1>>,
     <<8184, 8185, -128, 1>>, <<8186, 8187, -126, 1>>, <<8188, 8188, -9, 1>>,
     <<8486, 8486, -7517, 1>>, <<8490, 8490, -8383, 1>>, <<8491, 8491, -8262,
     1>>, <<8498, 8498, 28, 1>>, <<8544, 8559, 16, 1>>, <<8579, 8579, 1, 1>>,
     <<9398, 9423, 26, 1>>, <<11264, 11311, 48, 1>>, <<11360, 11360, 1, 1>>,
     <<11362, 11362, -10743, 1>>, <<11363, 11363, -3814, 1>>, <<11364, 11364,
     -10727, 1>>, <<11367, 11371, 1, 2>>, <<11373, 11373, -10780, 1>>,
     <<11374, 11374, -10749, 1>>, <<11375, 11375, -10783, 1>>, <<11376, 11376,
     -10782, 1>>, <<11378, 11378, 1, 1>>, <<11381, 11381, 1, 1>>, <<11390,
     11391, -10815, 1>>, <<11392, 11490, 1, 2>>, <<11499, 11501, 1, 2>>,
     <<11506, 11506, 1, 1>>, <<42560, 42604, 1, 2>>, <<42624, 42650, 1, 2>>,
     <<42786, 42798, 1, 2>>, <<42802, 42862, 1, 2>>, <<42873, 42875, 1, 2>>,
     <<42877, 42877, -35332, 1>>, <<42878, 42886, 1, 2>>, <<42891, 42891, 1,
     1>>, <<42893, 42893, -42280, 1>>, <<42896, 42898, 1, 2>>, <<42902, 42920,
     1, 2>>, <<42922, 42922, -42308, 1>>, <<42923, 42923, -42319, 1>>,
     <<42924, 42924, -42315, 1>>, <<42925, 42925, -42305, 1>>, <<42926, 42926,
     -42308, 1>>, <<42928, 42928, -42258, 1>>, <<42929, 42929, -42282, 1>>,
     <<42930, 42930, -42261, 1>>, <<42931, 42931, 928, 1>>, <<42932, 42946, 1,
     2>>, <<42948, 42948, -48, 1>>, <<42949, 42949, -42307, 1>>, <<42950,
     42950, -35384, 1>>, <<42951, 42953, 1, 2>>, <<42960, 42960, 1, 1>>,
     <<42966, 42968, 1, 2>>, <<42997, 42997, 1, 1>>, <<65313, 65338, 32, 1>>,
     <<66560, 66599, 40, 1>>, <<66736, 66771, 40, 1>>, <<66928, 66938, 39,
     1>>, <<66940, 66954, 39, 1>>, <<66956, 66962, 39, 1>>, <<66964, 66965,
     39, 1>>, <<68736, 68786, 64, 1>>, <<71840, 71871, 32, 1>>, <<93760,
     93791, 32, 1>>, <<125184, 125217, 34, 1>>}

ToLower(c) ==
    LET R == {r \in ToLowerRuns :
                 r[1] <= c /\ c <= r[2] /\ (c - r[1]) % r[4] = 0}
    IN  IF R = {} THEN c ELSE c + (CHOOSE r \in R : TRUE)[3]

\* Lower-case characters that have the same upper case match each other too
\* (i and dotless i, s and long s, ...).
ExtraCases ==
    {{105, 305}, {115, 383}, {181, 956}, {837, 953, 8126}, {912, 8147}, {944,
     8163}, {946, 976}, {949, 1013}, {952, 977}, {954, 1008}, {960, 982},
     {961, 1009}, {962, 963}, {966, 981}, {1074, 7296}, {1076, 7297}, {1086,
     7298}, {1089, 7299}, {1090, 7300, 7301}, {1098, 7302}, {1123, 7303},
     {7304, 42571}, {7777, 7835}, {64261, 64262}}

SetMin(S) == CHOOSE x \in S : \A y \in S : x <= y

\* What a character is compared by under re.IGNORECASE: two characters
\* match each other exactly when this is the same for both.
CaseKey(c) ==
    LET l == ToLower(c)
        G == {g \in ExtraCases : l \in g}
    IN  IF G = {} THEN l ELSE SetMin(UNION G)

\* The same, the ASCII characters looked up in a table computed once.
AsciiCaseKeys == [c \in 0..127 |-> CaseKey(c)]
Lower(c) == IF c \in DOMAIN AsciiCaseKeys THEN AsciiCaseKeys[c] ELSE CaseKey(c)

\* The literal w (in lower case) is at s[i..], whatever the case of s.
LitAt(s, i, w) ==
    /\ i >= 1
    /\ i + Len(w) - 1 <= Len(s)
    /\ \A k \in 1..Len(w) : Lower(s[i + k - 1]) = w[k]

\* \b between s[i-1] and s[i].
WordAt(s, i) == i >= 1 /\ i <= Len(s) /\ IsWordChar(s[i])
Boundary(s, i) == WordAt(s, i - 1) # WordAt(s, i)

AllSpace(s, a, b) == \A r \in a..b : IsSpace(s[r])

LitMain       == <<109, 97, 105, 110>>    \* main
LitTheorem    == <<116, 104, 101, 111, 114, 101, 109>>    \* theorem
LitMainResult == <<109, 97, 105, 110, 32, 114, 101, 115, 117, 108, 116>>
                 \* main result
LitWeVerbThat == {<<119, 101, 32, 112, 114, 111, 118, 101, 32, 116, 104, 97, 116>>,
                  <<119, 101, 32, 115, 104, 111, 119, 32, 116, 104, 97, 116>>,
                  <<119, 101, 32, 101, 115, 116, 97, 98, 108, 105, 115, 104, 32, 116, 104, 97, 116>>}
                 \* we prove that, we show that, we establish that
\* The CJK literals of patterns 6 and 7: U+4E3B U+5B9A U+7406 (shu tei ri),
\* U+4E3B U+7D50 U+679C (shu kek ka), U+672C U+8AD6 U+6587 U+306E (hon ron bun
\* no) before it, U+5B9A U+7406 (tei ri).
LitShuteiri   == <<20027, 23450, 29702>>
LitShukekka   == <<20027, 32080, 26524>>
LitHonronbun  == <<26412, 35542, 25991, 12398, 20027, 32080, 26524>>
LitTeiri      == <<23450, 29702>>
Kuten         == 12290    \* U+3002, ideographic full stop
FullStop      == 65294    \* U+FF0E, fullwidth full stop
FullColon     == 65306    \* U+FF1A, fullwidth colon

\* Pattern k of _DEF_THEOREM_PATTERNS matches starting at s[i]. A trailing .*
\* matches anything, the empty string too.
\* 1: \bMain\s+Theorem\b.*
Pattern1(s, i) ==
    /\ LitAt(s, i, LitMain)
    /\ Boundary(s, i)
    /\ \E j \in (i + 5)..Len(s) :
          /\ LitAt(s, j, LitTheorem)
          /\ AllSpace(s, i + 4, j - 1)
          /\ Boundary(s, j + 7)
\* 2: \bTheorem\s+\d+[^:]*:.*
Pattern2(s, i) ==
    /\ LitAt(s, i, LitTheorem)
    /\ Boundary(s, i)
    /\ \E j \in (i + 8)..Len(s) :
          /\ IsDigit(s[j])
          /\ AllSpace(s, i + 7, j - 1)
          /\ \E k \in (j + 1)..Len(s) : s[k] = Colon
\* 3: \bTheorem\b[^:]*:.*
Pattern3(s, i) ==
    /\ LitAt(s, i, LitTheorem)
    /\ Boundary(s, i)
    /\ Boundary(s, i + 7)
    /\ \E k \in (i + 7)..Len(s) : s[k] = Colon
\* 4: \bmain result\b.*
Pattern4(s, i) ==
    /\ LitAt(s, i, LitMainResult)
    /\ Boundary(s, i)
    /\ Boundary(s, i + Len(LitMainResult))
\* 5: \bwe (prove|show|establish) that\b.*
Pattern5(s, i) ==
    \E w \in LitWeVerbThat :
        /\ LitAt(s, i, w)
        /\ Boundary(s, i)
        /\ Boundary(s, i + Len(w))
\* 6: (shuteiri|shukekka|honronbun no shukekka)[^kuten \n]*[kuten fullstop \n].*
Pattern6(s, i) ==
    \E w \in {LitShuteiri, LitShukekka, LitHonronbun} :
        /\ LitAt(s, i, w)
        /\ \E k \in (i + Len(w))..Len(s) :
              /\ s[k] \in {Kuten, FullStop, Newline}
              /\ \A m \in (i + Len(w))..(k - 1) : s[m] \notin {Kuten, Newline}
\* 7: (teiri\s*\d*[^fullcolon]*fullcolon.*)
Pattern7(s, i) ==
    /\ LitAt(s, i, LitTeiri)
    /\ \E k \in (i + 2)..Len(s) : s[k] = FullColon

PatternAt(k, s, i) ==
    CASE k = 1 -> Pattern1(s, i)
      [] k = 2 -> Pattern2(s, i)
      [] k = 3 -> Pattern3(s, i)
      [] k = 4 -> Pattern4(s, i)
      [] k = 5 -> Pattern5(s, i)
      [] k = 6 -> Pattern6(s, i)
      [] OTHER -> Pattern7(s, i)

\* re.search(pat, text): the start of the leftmost match, 0 when there is none.
Search(k, s) ==
    LET M == {i \in 1..Len(s) : PatternAt(k, s, i)}
    IN  IF M = {} THEN 0 ELSE SetMin(M)

\* The subsequence of s at the places where keep holds, each character mapped
\* by to; halving keeps the evaluation shallow on long text.
RECURSIVE Pick(_, _, _, _, _)
Pick(s, keep, to, lo, hi) ==
    IF lo > hi THEN <<>>
    ELSE IF lo = hi THEN (IF keep[lo] THEN <<to[lo]>> ELSE <<>>)
    ELSE LET mid == (lo + hi) \div 2
         IN  Pick(s, keep, to, lo, mid) \o Pick(s, keep, to, mid + 1, hi)

\* re.sub(r"\s+\n", "\n", text): in a run of white space, everything before
\* its last line break goes.
SubSpaceBeforeNewline(s) ==
    LET n    == Len(s)
        keep == [p \in 1..n |->
                    ~(/\ IsSpace(s[p])
                      /\ \E q \in (p + 1)..n : s[q] = Newline /\ AllSpace(s, p, q))]
    IN  Pick(s, keep, s, 1, n)

\* re.sub(r"\s+", " ", out): every run of white space becomes one blank.
SubSpaceRuns(s) ==
    LET n    == Len(s)
        keep == [p \in 1..n |-> ~IsSpace(s[p]) \/ p = 1 \/ ~IsSpace(s[p - 1])]
        to   == [p \in 1..n |-> IF IsSpace(s[p]) THEN Blank ELSE s[p]]
    IN  Pick(s, keep, to, 1, n)

\* str.strip()
Strip(s) ==
    LET I == {p \in 1..Len(s) : ~IsSpace(s[p])}
    IN  IF I = {} THEN <<>>
        ELSE SubSeq(s, SetMin(I), CHOOSE x \in I : \A y \in I : y <= x)

\* The separators of re.split(r"(?<=[\.!?kuten fullstop \n])\s+", chunk): a
\* separator starts at white space that follows a terminator and is not inside
\* an earlier separator, and runs to the end of the white space.
Terminators == {46, 33, 63, Kuten, FullStop, Newline}    \* . ! ? and the rest

SeparatorStarts(c) ==
    {p \in 2..Len(c) :
        /\ IsSpace(c[p])
        /\ c[p - 1] \in Terminators
        /\ ~\E q \in 2..(p - 1) : c[q - 1] \in Terminators /\ AllSpace(c, q, p - 1)}

SeparatorEnd(c, p) ==
    SetMin({q \in p..Len(c) : q = Len(c) \/ ~IsSpace(c[q + 1])})

RECURSIVE SplitFrom(_, _, _)
SplitFrom(c, starts, from) ==
    LET S == {p \in starts : p >= from}
    IN  IF S = {} THEN <<SubSeq(c, from, Len(c))>>
        ELSE LET p == SetMin(S)
             IN  <<SubSeq(c, from, p - 1)>> \o SplitFrom(c, starts, SeparatorEnd(c, p) + 1)

Split(c) == SplitFrom(c, SeparatorStarts(c), 1)

\* " ".join(parts)
RECURSIVE JoinBlank(_)
JoinBlank(parts) ==
    IF parts = <<>> THEN <<>>
    ELSE IF Len(parts) = 1 THEN parts[1]
    ELSE parts[1] \o <<Blank>> \o JoinBlank(Tail(parts))

\* A loop that would take the pattern whose match is leftmost in the text.
FirstPatternByPosition(s) ==
    LET K == {k \in 1..NumPatterns : Search(k, s) # 0}
    IN  IF K = {} THEN 0
        ELSE CHOOSE k \in K : \A j \in K :
                Search(k, s) < Search(j, s) \/ (Search(k, s) = Search(j, s) /\ k <= j)

\* The pattern the loop of line 118 stops at: the first in list order that
\* matches anywhere (0: none).
FirstPattern(s) ==
    LET K == {k \in 1..NumPatterns : Search(k, s) # 0}
    IN  IF K = {} THEN 0 ELSE SetMin(K)

\* A truncation that would also mark a text of exactly max_chars characters.
TruncateAtOrAbove(s, max_chars) ==
    IF Len(s) >= max_chars THEN SubSeq(s, 1, max_chars) \o <<Ellipsis>> ELSE s

\* (out[:max_chars] + ellipsis) if len(out) > max_chars else out, line 125.
Truncate(s, max_chars) ==
    IF Len(s) > max_chars THEN SubSeq(s, 1, max_chars) \o <<Ellipsis>> ELSE s

\* The first three sentences of the chunk, joined, white space collapsed and
\* stripped: out before line 125.
Region(t, m) ==
    LET chunk     == SubSeq(t, m, Min(m + ChunkChars - 1, Len(t)))
        sentences == Split(chunk)
        first     == SubSeq(sentences, 1, Min(MaxSentences, Len(sentences)))
    IN  Strip(SubSpaceRuns(JoinBlank(first)))

\* The start of the match the loop returns on (0: the loop ends without one).
MatchStart(t) ==
    LET k == FirstPattern(t)
    IN  IF k = 0 THEN 0 ELSE Search(k, t)

\* From line 119 on, the match starting at m (0: no pattern matched).
ExcerptAt(t, m, max_chars) ==
    IF m = 0 THEN <<>> ELSE Truncate(Region(t, m), max_chars)

\* The loop of lines 118-126 over the text t of line 117.
ExcerptFrom(t, max_chars) == ExcerptAt(t, MatchStart(t), max_chars)

extract_main_theorem_from_text(txt, max_chars) ==
    ExcerptFrom(SubSpaceBeforeNewline(txt), max_chars)

-----------------------------------------------------------------------------
(* The run: main(), src/main.py 208-253, and what it calls *)

MaxEntries == 2    \* a feed holds at most MaxEntries entries
MaxDetails == 2    \* limits.max_details ranges over 0..MaxDetails
MaxDur     == 1    \* a download and text extraction take 0..MaxDur seconds

Scores     == {1, 2}   \* values score_entry gives, and the thresholds tried

ConfigKeys == {"max_fetch", "lookback_days", "max_details", "threshold",
               "include_others_titles", "filename_prefix"}

\* A config.yaml: the keys it holds (present) and their values.
Configs(keySets) ==
    [present : keySets,
     max_fetch : {MaxEntries},
     lookback_days : {MaxDays},
     max_details : 0..MaxDetails,
     threshold : Scores,
     include_others_titles : BOOLEAN,
     filename_prefix : {"ag_weekly"}]

\* cfg[section][key] raises KeyError when the key is not there.
HasKey(c, key) == key \in c.present

\* What the arXiv API returns for an entry: timestamps end in "Z".
FeedStamps == {StampAt("Z", 0), StampAt("Z", 0 - (MaxDays + 1) * HoursPerDay)}

FeedEntries ==
    {[relevance |-> r, pdf_url |-> p, updated |-> u, published |-> u] :
        r \in Scores, p \in BOOLEAN, u \in FeedStamps}

Feeds(n) == UNION {[1..k -> FeedEntries] : k \in 0..n}

\* parse_atom, 55-72: one record per feed entry, in feed order. id is the
\* entry's place in the feed; title and abs_url are told apart by it.
parse_atom(feed) ==
    [i \in 1..Len(feed) |->
        [id |-> i, pdf_url |-> feed[i].pdf_url, relevance |-> feed[i].relevance,
         updated |-> feed[i].updated, published |-> feed[i].published]]

\* score_entry, 88-113: the weighted sum over the profile, carried by the entry.
score_entry(e) == e.relevance

\* The list comprehension of line 214.
RECURSIVE FilterLookback(_, _, _)
FilterLookback(es, days, nowUtc) ==
    IF es = <<>> THEN <<>>
    ELSE LET e == Head(es)
         IN  (IF in_lookback(e, days, nowUtc).value
              THEN <<[id |-> e.id, pdf_url |-> e.pdf_url, relevance |-> e.relevance]>>
              ELSE <<>>) \o FilterLookback(Tail(es), days, nowUtc)

LookbackRaises(es, days, nowUtc) ==
    \E i \in 1..Len(es) : in_lookback(es[i], days, nowUtc).raised

\* The loop of lines 217-222: keep the entries at or above the threshold.
RECURSIVE Qualifying(_, _)
Qualifying(es, threshold) ==
    IF es = <<>> THEN <<>>
    ELSE LET e == Head(es)
             s == score_entry(e)
         IN  (IF s >= threshold
              THEN <<[id |-> e.id, pdf_url |-> e.pdf_url, score |-> s]>>
              ELSE <<>>) \o Qualifying(Tail(es), threshold)

\* A sort that would put x before the elements of equal score (not stable).
SortPlaceTiesReversed(xs, x) ==
    Cardinality({i \in 1..Len(xs) : xs[i].score > x.score})

\* Where list.sort(key=score, reverse=True) puts x among the already sorted
\* xs, x coming after them in the input: behind every element whose score is
\* at least x's (the sort is stable).
SortPlace(xs, x) ==
    Cardinality({i \in 1..Len(xs) : xs[i].score >= x.score})

InsertAt(xs, k, x) == SubSeq(xs, 1, k) \o <<x>> \o SubSeq(xs, k + 1, Len(xs))

\* items.sort(key=lambda x: x["score"], reverse=True), line 223.
RECURSIVE SortByScoreDesc(_)
SortByScoreDesc(xs) ==
    IF xs = <<>> THEN <<>>
    ELSE LET n    == Len(xs)
             done == SortByScoreDesc(SubSeq(xs, 1, n - 1))
         IN  InsertAt(done, SortPlace(done, xs[n]), xs[n])

\* Python's s[:k] and s[k:], a negative k counting from the end.
SliceIndex(s, k) == IF k < 0 THEN Max(Len(s) + k, 0) ELSE Min(k, Len(s))
\* A slice that would stop one element short.
SliceToDropsLast(s, k) == SubSeq(s, 1, SliceIndex(s, k) - 1)

SliceTo(s, k)   == SubSeq(s, 1, SliceIndex(s, k))
SliceFrom(s, k) == SubSeq(s, SliceIndex(s, k) + 1, Len(s))

Titles(es) == [i \in 1..Len(es) |-> es[i].id]

\* Words and phrases the texts of the model are made of.
WordMain     == <<77, 97, 105, 110>>    \* Main
WordTheorem  == <<84, 104, 101, 111, 114, 101, 109>>    \* Theorem
WordOneColon == <<49, 58>>    \* 1:
WordXDot     == <<120, 46>>    \* x.
WordNewline  == <<Newline>>
WordFormFeed == <<FormFeed>>
PhraseMainResult == <<109, 97, 105, 110, 32, 114, 101, 115, 117, 108, 116>>
PhraseWeShow == <<87, 101, 32, 115, 104, 111, 119, 32, 116, 104, 97, 116>>
                \* We show that
WordShukekka == LitShukekka
WordTeiriColon == LitTeiri \o <<FullColon>>
WordKuten    == <<Kuten>>
\* Characters beyond ASCII: a fullwidth digit one (U+FF11) before a colon,
\* a Greek alpha (U+03B1) stuck to the front of Theorem:, and we show that
\* written with a long s (U+017F).
WordWideOneColon == <<65297, Colon>>
WordAlphaTheorem == <<945>> \o WordTheorem \o <<Colon>>
PhraseWeLongShow == <<119, 101, 32, 383, 104, 111, 119, 32, 116, 104, 97, 116>>

Phrases == {WordMain, WordTheorem, WordOneColon, WordXDot, WordNewline, WordFormFeed,
            PhraseMainResult, PhraseWeShow, WordShukekka, WordTeiriColon, WordKuten,
            WordWideOneColon, WordAlphaTheorem, PhraseWeLongShow}

\* What extract_text may return for a PDF: with and without a theorem.
TextWithTheorem    == JoinBlank(<<WordXDot, WordFormFeed, WordTheorem, WordOneColon, WordXDot>>)
TextWithoutTheorem == JoinBlank(<<WordXDot, WordXDot>>)
PdfTexts == {TextWithTheorem, TextWithoutTheorem}

\* extract_main_theorem, 129-148. What the world does to one call is env:
\* outcome (which statement of the try block raises, "ok": none), text (what
\* extract_text returns), rm_ok (os.remove succeeds on a file that is there)
\* and dur (the seconds the call takes).
PdfTextCap  == 20000    \* text[:20000], lines 138-139
PdfOutcomes == {"http_error", "open_error", "write_error", "extract_error",
                "search_error", "ok"}
FailedOutcomes == PdfOutcomes \ {"ok"}

\* tmp.pdf is on disk once open(..., "wb") has succeeded.
CreatesTmp(outcome) == outcome \in {"write_error", "extract_error", "search_error", "ok"}

\* An except clause that would let the exception through.
ExceptClauseReraises(outcome) == [raised |-> TRUE, value |-> <<>>]

\* except Exception: return "", 142-143.
ExceptClause(outcome) == [raised |-> FALSE, value |-> <<>>]

\* try: os.remove("tmp.pdf") except Exception: pass, 145-148.
RemoveTmp(onDisk, rm_ok) ==
    IF ~onDisk THEN [tmp |-> FALSE, rm |-> "missing"]
    ELSE IF rm_ok THEN [tmp |-> FALSE, rm |-> "removed"]
    ELSE [tmp |-> TRUE, rm |-> "failed"]

\* A clean-up that would run only when the try block ended without error.
FinallyOnlyOnSuccess(outcome, onDisk, rm_ok) ==
    IF outcome = "ok" THEN RemoveTmp(onDisk, rm_ok)
    ELSE [tmp |-> onDisk, rm |-> "none"]

\* finally, 144-148: runs on every way out of the try block.
FinallyClause(outcome, onDisk, rm_ok) == RemoveTmp(onDisk, rm_ok)

\* text = extract_text("tmp.pdf") or ""; text[:20000]; the excerpt of it,
\* lines 137-141.
ExcerptOfPdf(txt) ==
    extract_main_theorem_from_text(SubSeq(txt, 1, Min(PdfTextCap, Len(txt))), MaxChars)

\* The excerpt of every text of PdfTexts, computed once.
PdfExcerpts == [t \in PdfTexts |-> ExcerptOfPdf(t)]

\* What a call that entered the try block leaves: the value of the body (or
\* of the except clause) and the disk as the finally clause leaves it.
AfterTry(body, fin) ==
    [raised |-> body.raised, value |-> body.value, tmp |-> fin.tmp,
     rm |-> fin.rm, requested |-> TRUE]

extract_main_theorem(pdf_url, env, tmp0, rm0) ==
    IF ~pdf_url
    THEN [raised |-> FALSE, value |-> <<>>, tmp |-> tmp0, rm |-> rm0,
          requested |-> FALSE]
    ELSE AfterTry(IF env.outcome = "ok"
                  THEN [raised |-> FALSE, value |-> PdfExcerpts[env.text]]
                  ELSE ExceptClause(env.outcome),
                  FinallyClause(env.outcome, tmp0 \/ CreatesTmp(env.outcome), env.rm_ok))

\* time.sleep(3), line 232.
PoliteDelay == 3

\* A delay that would be skipped after an attempt that found nothing.
SleepOnlyAfterHit(th) == IF th = <<>> THEN 0 ELSE PoliteDelay

\* The delay of line 232 does not depend on what the attempt returned.
SleepSeconds(th) == PoliteDelay

\* build_pdf, 155-205: what the document shows. The date of the file name is
\* the day in Asia/Tokyo (UTC+9), line 243.
TodayJst(nowUtc) == (nowUtc + 9) \div HoursPerDay

build_pdf(path, top_details, titles) ==
    IF top_details = <<>> /\ titles = <<>>
    THEN [written |-> TRUE, path |-> path, zero_msg |-> TRUE,
          details |-> <<>>, others |-> <<>>]
    ELSE [written |-> TRUE, path |-> path, zero_msg |-> FALSE,
          details |-> [i \in 1..Len(top_details) |->
                         [title |-> top_details[i].title,
                          found |-> top_details[i].theorem # <<>>]],
          others |-> titles]

Environments == [outcome : PdfOutcomes, text : PdfTexts, rm_ok : BOOLEAN, dur : 0..MaxDur]

-----------------------------------------------------------------------------
(* States before anything ran *)

NoConfig  == [present |-> {}, max_fetch |-> 0, lookback_days |-> 0, max_details |-> 0,
              threshold |-> 0, include_others_titles |-> FALSE, filename_prefix |-> ""]
NoPath    == [dir |-> "", prefix |-> "", date |-> 0]
NoDoc     == [written |-> FALSE, path |-> NoPath, zero_msg |-> FALSE,
              details |-> <<>>, others |-> <<>>]
NoSummary == [printed |-> FALSE, picked_count |-> 0, detailed_count |-> 0,
              others_count |-> 0, pdf |-> NoPath]
NoAttempt == [attempt |-> 0, outcome |-> "none", requested |-> FALSE,
              start |-> 0, finish |-> 0, prevFinish |-> 0, rm |-> "none"]
NoLookback == [returned |-> FALSE, raised |-> FALSE, value |-> FALSE]

MainIdle ==
    /\ cfgFile = [exists |-> FALSE, content |-> NoConfig]
    /\ cfg = NoConfig
    /\ entries = <<>> /\ items = <<>> /\ top = <<>> /\ others = <<>>
    /\ detailed = <<>> /\ other_titles = <<>> /\ theorem = <<>>
    /\ tmp = FALSE /\ clock = 0 /\ last = NoAttempt
    /\ net = [feed |-> 0, pdf |-> 0] /\ doc = NoDoc /\ summary = NoSummary

LbIdle ==
    /\ lbEntry = [updated |-> StampAt("absent", 0), published |-> StampAt("absent", 0)]
    /\ lbDays = 0
    /\ lbOut = NoLookback

TxIdle == text = <<>> /\ mstart = 0 /\ out = <<>> /\ excerpt = <<>>

-----------------------------------------------------------------------------
(* main() *)

InitMain(files) ==
    /\ pc = "load_config"
    /\ err = ""
    /\ now = 0
    /\ cfgFile \in files
    /\ cfg = NoConfig
    /\ entries = <<>> /\ items = <<>> /\ top = <<>> /\ others = <<>>
    /\ detailed = <<>> /\ other_titles = <<>> /\ theorem = <<>>
    /\ tmp \in BOOLEAN    \* an earlier run, or anything else, may have left tmp.pdf
    /\ clock = 0 /\ last = NoAttempt
    /\ net = [feed |-> 0, pdf |-> 0] /\ doc = NoDoc /\ summary = NoSummary
    /\ LbIdle /\ TxIdle

\* A run with a complete config.yaml.
Init == InitMain([exists : {TRUE}, content : Configs({ConfigKeys})])

\* A run whose config.yaml may be missing, or lack keys.
InitConfig ==
    InitMain({f \in [exists : BOOLEAN, content : Configs(SUBSET ConfigKeys)] :
                 /\ f.content.max_details = MaxDetails
                 /\ f.content.include_others_titles})

Raise(e) == pc' = "raised" /\ err' = e

\* cfg = load_config(), line 209
LoadConfig ==
    /\ pc = "load_config"
    /\ IF ~cfgFile.exists
       THEN Raise("FileNotFoundError") /\ cfg' = cfg
       ELSE cfg' = cfgFile.content /\ pc' = "query" /\ err' = err
    /\ UNCHANGED <<now, cfgFile, entries, items, top, others, detailed, other_titles,
                   theorem, tmp, clock, last, net, doc, summary, lbVars, txVars>>

\* What the feed query gets: an error, or a feed of at most max_results entries.
Responses(n) == {[ok |-> FALSE, feed |-> <<>>]} \cup {[ok |-> TRUE, feed |-> f] : f \in Feeds(n)}

\* xml = arxiv_query_math_ag(...); entries = [... in_lookback ...], lines 212-214
QueryAndFilter ==
    /\ pc = "query"
    /\ IF ~HasKey(cfg, "max_fetch")
       THEN Raise("KeyError") /\ UNCHANGED <<net, entries>>
       ELSE \E resp \in Responses(cfg.max_fetch) :
              /\ net' = [net EXCEPT !.feed = @ + 1]
              /\ LET es == parse_atom(resp.feed)
                 IN  IF ~resp.ok
                     THEN Raise("HTTPError") /\ entries' = entries
                     ELSE IF es # <<>> /\ ~HasKey(cfg, "lookback_days")
                     THEN Raise("KeyError") /\ entries' = entries
                     ELSE IF LookbackRaises(es, cfg.lookback_days, now)
                     THEN Raise("TypeError") /\ entries' = entries
                     ELSE /\ entries' = FilterLookback(es, cfg.lookback_days, now)
                          /\ pc' = "score" /\ err' = err
    /\ UNCHANGED <<now, cfgFile, cfg, items, top, others, detailed, other_titles,
                   theorem, tmp, clock, last, doc, summary, lbVars, txVars>>

\* The scoring loop and the sort, lines 216-223
ScoreAndRank ==
    /\ pc = "score"
    /\ IF entries # <<>> /\ ~HasKey(cfg, "threshold")
       THEN Raise("KeyError") /\ items' = items
       ELSE /\ items' = SortByScoreDesc(Qualifying(entries, cfg.threshold))
            /\ pc' = "split" /\ err' = err
    /\ UNCHANGED <<now, cfgFile, cfg, entries, top, others, detailed, other_titles,
                   theorem, tmp, clock, last, net, doc, summary, lbVars, txVars>>

\* top = items[:max_details]; others = items[max_details:], lines 226-229
SplitTop ==
    /\ pc = "split"
    /\ IF ~HasKey(cfg, "max_details")
       THEN Raise("KeyError") /\ UNCHANGED <<top, others>>
       ELSE /\ top' = SliceTo(items, cfg.max_details)
            /\ others' = SliceFrom(items, cfg.max_details)
            /\ pc' = IF SliceTo(items, cfg.max_details) = <<>> THEN "titles" ELSE "extract"
            /\ err' = err
    /\ UNCHANGED <<now, cfgFile, cfg, entries, items, detailed, other_titles,
                   theorem, tmp, clock, last, net, doc, summary, lbVars, txVars>>

\* The call of line 231 having done r, after d seconds.
ExtractDid(env, r, d) ==
    /\ IF r.raised
       THEN Raise("Exception") /\ theorem' = theorem
       ELSE theorem' = r.value /\ pc' = "sleep" /\ err' = err
    /\ tmp' = r.tmp
    /\ net' = [net EXCEPT !.pdf = @ + (IF r.requested THEN 1 ELSE 0)]
    /\ clock' = clock + d
    /\ last' = [attempt |-> last.attempt + 1,
                outcome |-> IF r.requested THEN env.outcome ELSE "no_url",
                requested |-> r.requested,
                start |-> clock, finish |-> clock + d,
                prevFinish |-> last.finish,
                rm |-> r.rm]

\* theorem = extract_main_theorem(e["pdf_url"]), line 231, for the next e of top
Extract ==
    /\ pc = "extract"
    /\ \E env \in Environments :
          ExtractDid(env,
                     extract_main_theorem(top[Len(detailed) + 1].pdf_url, env, tmp, last.rm),
                     IF top[Len(detailed) + 1].pdf_url THEN env.dur ELSE 0)
    /\ UNCHANGED <<now, cfgFile, cfg, entries, items, top, others, detailed,
                   other_titles, doc, summary, lbVars, txVars>>

\* time.sleep(3); detailed.append({...}), lines 232-238
SleepAndAppend ==
    /\ pc = "sleep"
    /\ clock' = clock + SleepSeconds(theorem)
    /\ detailed' = Append(detailed, [title |-> top[Len(detailed) + 1].id,
                                     theorem |-> theorem])
    /\ pc' = IF Len(detailed) + 1 < Len(top) THEN "extract" ELSE "titles"
    /\ UNCHANGED <<err, now, cfgFile, cfg, entries, items, top, others, other_titles,
                   theorem, tmp, last, net, doc, summary, lbVars, txVars>>

\* other_titles = [...] if cfg["output"]["include_others_titles"] else [], line 240
OtherTitles ==
    /\ pc = "titles"
    /\ IF ~HasKey(cfg, "include_others_titles")
       THEN Raise("KeyError") /\ other_titles' = other_titles
       ELSE /\ other_titles' = IF cfg.include_others_titles THEN Titles(others) ELSE <<>>
            /\ pc' = "build_pdf" /\ err' = err
    /\ UNCHANGED <<now, cfgFile, cfg, entries, items, top, others, detailed,
                   theorem, tmp, clock, last, net, doc, summary, lbVars, txVars>>

\* fname = f"{prefix}_{today}.pdf"; path = build_pdf(...), lines 243-246
BuildPdf ==
    /\ pc = "build_pdf"
    /\ IF ~HasKey(cfg, "filename_prefix")
       THEN Raise("KeyError") /\ doc' = doc
       ELSE /\ doc' = build_pdf([dir |-> "out", prefix |-> cfg.filename_prefix,
                                 date |-> TodayJst(now)], detailed, other_titles)
            /\ pc' = "print" /\ err' = err
    /\ UNCHANGED <<now, cfgFile, cfg, entries, items, top, others, detailed,
                   other_titles, theorem, tmp, clock, last, net, summary, lbVars, txVars>>

\* print(json.dumps({...})), lines 248-253
PrintSummary ==
    /\ pc = "print"
    /\ summary' = [printed |-> TRUE, picked_count |-> Len(items),
                   detailed_count |-> Len(detailed),
                   others_count |-> Len(other_titles), pdf |-> doc.path]
    /\ pc' = "done"
    /\ UNCHANGED <<err, now, cfgFile, cfg, entries, items, top, others, detailed,
                   other_titles, theorem, tmp, clock, last, net, doc, lbVars, txVars>>

Next ==
    \/ LoadConfig
    \/ QueryAndFilter
    \/ ScoreAndRank
    \/ SplitTop
    \/ Extract
    \/ SleepAndAppend
    \/ OtherTitles
    \/ BuildPdf
    \/ PrintSummary

Spec == Init /\ [][Next]_vars

SpecConfig == InitConfig /\ [][Next]_vars

-----------------------------------------------------------------------------
(* in_lookback applied to one entry *)

InitLookback ==
    /\ pc = "call"
    /\ err = ""
    /\ now = 0
    /\ lbEntry \in [updated : LbStamps, published : LbStamps]
    /\ lbDays \in 0..MaxDays
    /\ lbOut = NoLookback
    /\ MainIdle /\ TxIdle

CallInLookback ==
    /\ pc = "call"
    /\ LET r == in_lookback(lbEntry, lbDays, now)
       IN  lbOut' = [returned |-> ~r.raised, raised |-> r.raised, value |-> r.value]
    /\ pc' = "return"
    /\ UNCHANGED <<err, now, lbEntry, lbDays, mainVars, txVars>>

NextLookback == CallInLookback

SpecLookback == InitLookback /\ [][NextLookback]_vars

-----------------------------------------------------------------------------
(* extract_main_theorem_from_text applied to one text *)

MaxPhrases == 2    \* a text of the pattern check joins at most MaxPhrases phrases
MaxPad     == 5    \* a long text falls 0..MaxPad characters short of max_chars

PatternTexts == {JoinBlank(ps) : ps \in UNION {[1..k -> Phrases] : k \in 0..MaxPhrases}}

Filler(n) == [i \in 1..n |-> 120]    \* x

LongHeads == {WordTheorem \o <<Colon, Blank>>,
              WordMain \o <<Blank>> \o WordTheorem \o <<Blank>>,
              PhraseWeShow \o <<Blank>>}
\* Nothing; ". y"; ". y.", a line break, " z!", a page break, "w".
LongTails == {<<>>, <<46, Blank, 121>>,
              <<46, Blank, 121, 46, Newline, Blank, 122, 33, FormFeed, 119>>}

LongTexts ==
    {h \o Filler(MaxChars - Len(h) - pad) \o t :
        h \in LongHeads, pad \in 0..MaxPad, t \in LongTails}
    \cup {h \o Filler(ChunkChars) \o <<46, Blank, 121>> : h \in LongHeads}

InitExtract(texts) ==
    /\ pc = "call"
    /\ err = ""
    /\ now = 0
    /\ text \in texts
    /\ mstart = 0 /\ out = <<>> /\ excerpt = <<>>
    /\ MainIdle /\ LbIdle

InitPatterns == InitExtract(PatternTexts)
InitExcerpt  == InitExtract(LongTexts)

\* Lines 117-124: the pattern loop up to out, or the return "" of line 126.
SearchPatterns ==
    /\ pc = "call"
    /\ \E t \in {SubSpaceBeforeNewline(text)} :
       \E m \in {MatchStart(t)} :
           /\ mstart' = m
           /\ out' = IF m = 0 THEN <<>> ELSE Region(t, m)
           /\ pc' = IF m = 0 THEN "return" ELSE "line125"
    /\ UNCHANGED <<err, now, text, excerpt, mainVars, lbVars>>

\* Line 125.
ReturnExcerpt ==
    /\ pc = "line125"
    /\ excerpt' = Truncate(out, MaxChars)
    /\ pc' = "return"
    /\ UNCHANGED <<err, now, text, mstart, out, mainVars, lbVars>>

NextExtract == SearchPatterns \/ ReturnExcerpt

SpecPatterns == InitPatterns /\ [][NextExtract]_vars
SpecExcerpt  == InitExcerpt /\ [][NextExtract]_vars

-----------------------------------------------------------------------------
(* Properties of in_lookback, checked under SpecLookback *)

\* What the lookback check is meant to answer for e at nowUtc: TRUE when
\* neither timestamp is usable, else whether the later usable timestamp is at
\* most days whole days old (the fraction of a day dropped).
LaterHours(e) ==
    LET u == e.updated
        p == e.published
        usable(s) == s.form \in {"Z", "+09:00", "naive"}
        utc(s) == s.wall - OffsetHours(s.form)
    IN  IF usable(u) /\ usable(p) THEN Max(utc(u), utc(p))
        ELSE IF usable(u) THEN utc(u) ELSE utc(p)

HasUsableStamp(e) ==
    \E s \in {e.updated, e.published} : s.form \in {"Z", "+09:00", "naive"}

\* C7: in_lookback never raises; it answers TRUE when neither timestamp
\* parses, and otherwise TRUE exactly when the later parseable timestamp is
\* at most N whole days old (exactly N days old is inside, the fractional
\* part of the difference being dropped), so one bad date never aborts a run.
C7_NeverRaisesFailOpen ==
    pc = "return" =>
        /\ ~lbOut.raised
        /\ lbOut.returned
        /\ lbOut.value = (IF HasUsableStamp(lbEntry)
                          THEN (now - LaterHours(lbEntry)) \div HoursPerDay <= lbDays
                          ELSE TRUE)

\* The state that refutes C7: a well-formed timestamp without a UTC offset,
\* and the TypeError of line 85 leaving the function.
C7_NaiveStampRaises ==
    /\ pc = "return"
    /\ lbOut.raised /\ ~lbOut.returned
    /\ lbEntry.updated.form = "naive"
    /\ lbEntry.published.form = "absent"

-----------------------------------------------------------------------------
(* Properties of a run with a complete configuration, checked under Spec *)

\* main() is past the sort of line 223.
Ranked == pc \in {"split", "extract", "sleep", "titles", "build_pdf", "print", "done"}

\* main() is past line 240: both lists that build_pdf renders are made.
ListsMade == pc \in {"build_pdf", "print", "done"}

\* The place of the entry called id in the lookback-filtered entries.
PlaceOf(id) == CHOOSE a \in 1..Len(entries) : entries[a].id = id

\* C1: the ranked list is exactly the lookback-filtered entries whose score
\* is at least the threshold, each once and with its score, in non-increasing
\* score order, two entries of equal score keeping the order they have in
\* the feed.
C1_RankedByScoreStable ==
    Ranked =>
        /\ {items[i].id : i \in 1..Len(items)}
              = {entries[a].id : a \in {b \in 1..Len(entries) :
                                          score_entry(entries[b]) >= cfg.threshold}}
        /\ \A i, j \in 1..Len(items) : i # j => items[i].id # items[j].id
        /\ \A i \in 1..Len(items) :
              items[i].score = score_entry(entries[PlaceOf(items[i].id)])
        /\ \A i, j \in 1..Len(items) : i < j => items[i].score >= items[j].score
        /\ \A i, j \in 1..Len(items) :
              i < j /\ items[i].score = items[j].score
                 => PlaceOf(items[i].id) < PlaceOf(items[j].id)

\* Two entries of equal score were ranked, and the run went on to its end.
C1_TieRanked ==
    /\ pc = "done"
    /\ Len(items) = 2
    /\ items[1].score = items[2].score
    /\ cfg.threshold = items[1].score

\* C2: of n ranked entries and max_details = k, the first min(k, n) are
\* rendered with full detail, in ranked order; the other n - min(k, n) are
\* rendered title-only in ranked order when include_others_titles is set, and
\* none is when it is not; no entry is in both lists.
C2_OverflowSplit ==
    ListsMade =>
        LET n == Len(items)
            m == Min(cfg.max_details, n)
        IN  /\ Len(detailed) = m
            /\ \A i \in 1..m : detailed[i].title = items[i].id
            /\ other_titles = IF cfg.include_others_titles
                              THEN [i \in 1..(n - m) |-> items[m + i].id]
                              ELSE <<>>
            /\ {detailed[i].title : i \in 1..Len(detailed)} \cap Range(other_titles) = {}
            /\ doc.written =>
                  /\ doc.zero_msg \/ Len(doc.details) = m
                  /\ \A i \in 1..Len(doc.details) : doc.details[i].title = items[i].id
                  /\ doc.others = other_titles

\* More entries qualified than max_details allows: one is rendered with
\* full detail and the other title-only.
C2_OverflowRendered ==
    /\ pc = "done"
    /\ Len(items) = 2 /\ cfg.max_details = 1 /\ cfg.include_others_titles
    /\ Len(doc.details) = 1 /\ doc.details[1].title = items[1].id
    /\ doc.others = <<items[2].id>>

\* C3: a failure while extracting one top entry (download, file open or
\* write, text extraction, pattern search) gives that entry an empty excerpt
\* and nothing else: no error reaches main(), every top entry is attempted
\* and recorded in ranked order, and the run writes its document and prints
\* its summary.
C3_ExtractionFailsSoft ==
    /\ last.attempt >= 1 => pc # "raised"
    /\ pc = "sleep" =>
          /\ last.attempt = Len(detailed) + 1
          /\ last.outcome \in FailedOutcomes \cup {"no_url"} => theorem = <<>>
    /\ Len(detailed) <= Len(top)
    /\ \A i \in 1..Len(detailed) : detailed[i].title = top[i].id
    /\ pc \in {"titles", "build_pdf", "print", "done"} => Len(detailed) = Len(top)
    /\ pc = "done" =>
          /\ doc.written /\ summary.printed
          /\ summary.detailed_count = Len(top)
          /\ last.attempt = Len(top)

\* The second of two extractions failed after the first had found a theorem;
\* both entries are in the document that was written.
C3_FailedThenFinished ==
    /\ pc = "done"
    /\ last.attempt = 2 /\ last.outcome \in FailedOutcomes
    /\ Len(detailed) = 2
    /\ detailed[1].theorem # <<>> /\ detailed[2].theorem = <<>>
    /\ doc.written /\ ~doc.zero_msg /\ Len(doc.details) = 2
    /\ summary.printed

\* main() is between two extraction attempts, or past the last one.
BetweenAttempts == pc \in {"sleep", "extract", "titles", "build_pdf", "print", "done"}

\* C5 (as stated): the transient file is removed on every exit path of an
\* attempt that may have created it, so it does not exist between extraction
\* attempts or when the run ends.
C5_TmpNeverLeftBehind ==
    BetweenAttempts /\ last.attempt >= 1 => ~tmp

\* C5 (amended): every attempt that entered the try block tries to remove
\* the transient file on its way out, whichever statement failed, and after
\* it the file exists only when that removal itself failed; until an attempt
\* has entered the try block nothing is removed, so a file that was on disk
\* when the run started is still there; and a removal that failed, or found
\* no file, raises nothing past extract_main_theorem.
C5_RemovedUnlessRemovalFails ==
    /\ last.requested => last.rm \in {"removed", "missing", "failed"}
    /\ last.rm \in {"removed", "missing"} => ~tmp
    /\ last.rm = "failed" => tmp
    /\ last.rm = "none" <=> net.pdf = 0
    /\ last.rm \in {"failed", "missing"} => pc # "raised"

\* Text extraction failed on a file that had been written, and the file is
\* gone when the run ends.
C5_RemovedAfterFailure ==
    /\ pc = "done"
    /\ last.attempt = 2
    /\ last.outcome = "extract_error"
    /\ last.rm = "removed"
    /\ ~tmp

\* C6: extractions happen one at a time and each attempt, whether it found
\* a theorem, failed or was skipped for want of a pdf_url, is followed by a
\* delay of 3: the next attempt, and whatever follows the last one, starts
\* no sooner than 3 after the attempt before it finished.
C6_PoliteDelayAfterEveryAttempt ==
    /\ pc = "sleep" => clock = last.finish
    /\ pc \in {"extract", "titles", "build_pdf", "print", "done"} /\ last.attempt >= 1
          => clock >= last.finish + PoliteDelay
    /\ last.attempt >= 2 => last.start >= last.prevFinish + PoliteDelay
    /\ last.attempt >= 1 => last.finish >= last.start

\* The second attempt, skipped for want of a pdf_url, started 3 after the
\* first had finished, and the delay after it has elapsed as well.
C6_DelayAfterSkipped ==
    /\ pc = "done"
    /\ last.attempt = 2 /\ last.outcome = "no_url"
    /\ last.start = last.prevFinish + PoliteDelay
    /\ clock = last.finish + PoliteDelay

\* C10 (as stated): the document shows the "0 results" message exactly when
\* picked_count is 0, whatever max_details and include_others_titles are;
\* then the document is still written and the counts reported are 0.
C10_ZeroMessageIffNonePicked ==
    pc = "done" =>
        /\ doc.written /\ summary.printed /\ summary.pdf = doc.path
        /\ doc.zero_msg <=> summary.picked_count = 0
        /\ summary.picked_count = 0 =>
              summary.detailed_count = 0 /\ summary.others_count = 0

\* The state that refutes C10: max_details = 0 and no overflow titles, so
\* both rendered lists are empty although an entry was picked.
C10_ZeroMessageWithPicks ==
    /\ pc = "done"
    /\ cfg.max_details = 0 /\ ~cfg.include_others_titles
    /\ summary.picked_count >= 1
    /\ doc.zero_msg

-----------------------------------------------------------------------------
(* Properties of a run whose configuration may be broken, under SpecConfig *)

ConfigBroken == ~cfgFile.exists \/ cfgFile.content.present # ConfigKeys

\* C4 (as stated): when config.yaml is missing, or lacks one of the six
\* required keys, the run aborts before any request (feed query or document
\* download) is issued, and writes no document.
C4_ConfigErrorBeforeNetwork ==
    ConfigBroken =>
        /\ net.feed = 0 /\ net.pdf = 0
        /\ ~doc.written

\* The state that refutes C4: output.filename_prefix is missing, and the
\* KeyError comes after the feed query and the downloads.
C4_KeyErrorAfterDownloads ==
    /\ pc = "raised" /\ err = "KeyError"
    /\ cfg.present = ConfigKeys \ {"filename_prefix"}
    /\ net.feed = 1 /\ net.pdf >= 1

-----------------------------------------------------------------------------
(* Properties of extract_main_theorem_from_text, under SpecPatterns and    *)
(* SpecExcerpt                                                             *)

\* The text the patterns are searched in (line 117).
Searched == SubSpaceBeforeNewline(text)

\* The pattern loop is over.
Searching == pc \in {"line125", "return"}

\* C8: the match used is that of the first pattern, in list order, that
\* matches anywhere in the text, wherever the later patterns match; the
\* excerpt starts with the characters at the start of that match; and the
\* result is empty exactly when no pattern matches.
C8_FirstPatternInListOrder ==
    Searching =>
        \E t \in {Searched} :
        \E at \in {[k \in 1..NumPatterns |-> Search(k, t)]} :
            /\ \A k \in 1..NumPatterns :
                  (at[k] # 0 /\ \A j \in 1..(k - 1) : at[j] = 0) => mstart = at[k]
            /\ mstart = 0 <=> \A k \in 1..NumPatterns : at[k] = 0
            /\ pc = "return" =>
                  /\ excerpt = <<>> <=> mstart = 0
                  /\ \A i \in 0..(MaxChars - 1) :
                        (/\ mstart # 0
                         /\ mstart + i <= Len(t)
                         /\ \A j \in 0..i : ~IsSpace(t[mstart + j]))
                           => Len(excerpt) > i /\ excerpt[i + 1] = t[mstart + i]

\* A pattern later in the list matches earlier in the text than the match
\* the excerpt was taken from.
C8_LaterPatternMatchesEarlier ==
    /\ pc = "return"
    /\ excerpt # <<>>
    /\ \E t \in {Searched} :
       \E k \in 1..NumPatterns :
          /\ Search(k, t) = mstart
          /\ \E j \in (k + 1)..NumPatterns : Search(j, t) # 0 /\ Search(j, t) < mstart

\* C9 (as stated): every excerpt returned is at most 700 characters long.
C9_AtMostMaxChars ==
    pc = "return" => Len(excerpt) <= MaxChars

\* C9 (amended): every excerpt returned is at most 701 characters long, 700
\* and the marker; a region (out, the first three sentences with white space
\* collapsed) of more than 700 characters comes back as its first 700
\* characters followed by one ellipsis, and a region of at most 700
\* characters comes back unchanged.
C9_TruncatedPlusMarker ==
    pc = "return" =>
        /\ Len(excerpt) <= MaxChars + 1
        /\ mstart # 0 =>
              /\ out = Region(Searched, mstart)
              /\ Len(out) > MaxChars =>
                    excerpt = SubSeq(out, 1, MaxChars) \o <<Ellipsis>>
              /\ Len(out) <= MaxChars => excerpt = out

\* A region one character over the limit came back as 700 characters and
\* the marker.
C9_RegionOverLimit ==
    /\ pc = "return"
    /\ Len(out) = MaxChars + 1
    /\ Len(excerpt) = MaxChars + 1
    /\ excerpt[MaxChars + 1] = Ellipsis
    /\ excerpt[MaxChars] = out[MaxChars]

====
